---- MODULE Spec2Model ----
(***************************************************************************)
(* State-machine model of the task planner's derived-state engine:         *)
(* api.py (create_task, assign_task, set_task_completed,                   *)
(* change_task_parent) and workers.py (UpdateTaskIndex,                    *)
(* UpdateAssigneeIndex).  One action is one datastore transaction          *)
(* together with the transactional enqueues it commits.                    *)
(*                                                                         *)
(* Datastore semantics the code relies on (api.py:36-42): inside a         *)
(* transaction reads return the snapshot taken when it began, writes are   *)
(* buffered, the last put of an entity wins, and an exception discards     *)
(* every put and every transactional enqueue.                              *)
(*                                                                         *)
(* BakeAssigneeDescription (workers.py:265-305) only rewrites              *)
(* baked_assignee_description, a field this model does not carry.          *)
(***************************************************************************)
EXTENDS Integers, Sequences, FiniteSets, TLC

\* ---------------------------------------------------------------- bounds
MaxTasks == 3
MaxSequence == 2
MaxRemaining == 3
MaxDeltas == 3
MaxMoves == 2
FlowTasks == 4
QueryTasks == 4
QueryLimit == 3
MaxMutations == 2

\* -------------------------------------------------------------- constants
NoTask == 0
NONE == "None"
ABSENT == ""
Users == {"alice", "bob"}
DomainAdmins == {"alice"}
UserAdminFlag == {}

Range(s) == {s[i] : i \in DOMAIN s}

Truthy(x) == x # NONE /\ x # ABSENT

\* A taskqueue parameter as the handler's request.get() reads it back: a
\* parameter that was not set (a falsy value is never put in params) reads ''.
Param(x) == IF Truthy(x) THEN x ELSE ABSENT

\* str(force) as taskqueue encodes the 'force_update' parameter.
StrOfBool(b) == IF b THEN "True" ELSE "False"

\* ------------------------------------------------------------ Task entity
NewTask(user, parent, level) ==
    [ parent_task |-> parent, user |-> user, assignee |-> NONE,
      completed |-> FALSE, number_of_subtasks |-> 0, remaining_subtasks |-> 0,
      level |-> level, assignee_index_sequence |-> 0 ]

atomic(t) == t.number_of_subtasks = 0

increment_incomplete_subtasks(t) ==
    [t EXCEPT !.remaining_subtasks = @ + 1, !.completed = FALSE]

decrement_incomplete_subtasks(t) ==
    [t EXCEPT !.remaining_subtasks = @ - 1,
              !.completed = IF t.remaining_subtasks - 1 = 0 THEN TRUE ELSE @]

\* _get_task_from_memory / get_task: the identifier if a task has it, else None.
GetTask(ts, id) == IF id \in DOMAIN ts THEN id ELSE NoTask

\* A Python dict as a function on its keys.
EmptyDict == [k \in {} |-> 0]
DictSet(d, k, v) == [x \in DOMAIN d \cup {k} |-> IF x = k THEN v ELSE d[x]]
DictDel(d, k) == [x \in DOMAIN d \ {k} |-> d[x]]
DictGet(d, k, default) == IF k \in DOMAIN d THEN d[k] ELSE default

\* AssigneeIndex(key_name=..., parent=task) with the properties' defaults.
NewAssigneeIndex == [ assignees |-> <<>>, reference_counts |-> EmptyDict, sequence |-> 0 ]

\* ------------------------------------------------------------------ state
VARIABLES tasks, taskIndex, assigneeIndex, indexQueue, assigneeQueue,
          pendingAssign, moves, delta, query, rebuild

vars == <<tasks, taskIndex, assigneeIndex, indexQueue, assigneeQueue,
          pendingAssign, moves, delta, query, rebuild>>

store == <<tasks, taskIndex, assigneeIndex, indexQueue, assigneeQueue>>

TaskIds == DOMAIN tasks

Children(ts, p) == {c \in DOMAIN ts : ts[c].parent_task = p}

\* ------------------------------------------------- api._propagate_completion
RECURSIVE PropagateLoop(_, _, _)
PropagateLoop(ts, parent_task, completed) ==
    IF parent_task = NoTask THEN ts
    ELSE IF completed
         THEN LET ts1 == [ts EXCEPT ![parent_task] = decrement_incomplete_subtasks(@)]
                  propagate == ts1[parent_task].completed
              IN  IF propagate
                  THEN PropagateLoop(ts1, GetTask(ts1, ts1[parent_task].parent_task), completed)
                  ELSE ts1
         ELSE LET parent_completed == ts[parent_task].completed
                  ts1 == [ts EXCEPT ![parent_task] = increment_incomplete_subtasks(@)]
                  propagate == ts1[parent_task].completed # parent_completed
              IN  IF propagate
                  THEN PropagateLoop(ts1, GetTask(ts1, ts1[parent_task].parent_task), completed)
                  ELSE ts1

\* A propagation that updates the parent and never climbs further.
PropagateCompletionToParentOnly(ts, task) ==
    LET parent_task == GetTask(ts, ts[task].parent_task) IN
    IF parent_task = NoTask THEN ts
    ELSE [ts EXCEPT ![parent_task] =
            IF ts[task].completed THEN decrement_incomplete_subtasks(@)
            ELSE increment_incomplete_subtasks(@)]

_propagate_completion(ts, task) ==
    PropagateLoop(ts, GetTask(ts, ts[task].parent_task), ts[task].completed)

\* -------------------------------------- workers.UpdateAssigneeIndex.queue_worker
\* st = [tasks, aq]: the transaction's task entities and the assignee jobs it
\* has enqueued so far.
AssigneeJob(task, sequence, add, remove) ==
    [ task |-> task, sequence |-> sequence,
      add_assignee |-> Param(add), remove_assignee |-> Param(remove) ]

\* A queue_worker that hands out the sequence number and keeps it.
QueueAssigneeWorkerNoIncrement(st, task, add_assignee, remove_assignee) ==
    IF add_assignee = remove_assignee THEN st
    ELSE [ tasks |-> st.tasks,
           aq |-> st.aq \cup {AssigneeJob(task, st.tasks[task].assignee_index_sequence,
                                          add_assignee, remove_assignee)} ]

\* A queue_worker that sends the job off with the number after its own.
QueueAssigneeWorkerSkipping(st, task, add_assignee, remove_assignee) ==
    IF add_assignee = remove_assignee THEN st
    ELSE LET sequence == st.tasks[task].assignee_index_sequence
         IN  [ tasks |-> [st.tasks EXCEPT ![task].assignee_index_sequence = sequence + 1],
               aq |-> st.aq \cup {AssigneeJob(task, sequence + 1, add_assignee, remove_assignee)} ]

QueueAssigneeWorker(st, task, add_assignee, remove_assignee) ==
    IF add_assignee = remove_assignee THEN st
    ELSE LET sequence == st.tasks[task].assignee_index_sequence
         IN  [ tasks |-> [st.tasks EXCEPT ![task].assignee_index_sequence = sequence + 1],
               aq |-> st.aq \cup {AssigneeJob(task, sequence, add_assignee, remove_assignee)} ]

\* ------------------------------------------ workers.UpdateTaskIndex.queue_worker
IndexJob(task, force) == [ task |-> task, force_update |-> StrOfBool(force) ]
IndexJobParam(task, force_update) == [ task |-> task, force_update |-> force_update ]

\* ------------------------------------------------------- api.can_assign_task
can_assign_task(t, user, assignee) ==
    IF ~atomic(t) THEN FALSE
    ELSE IF user = t.assignee THEN TRUE
    ELSE IF t.assignee = NONE /\ user = assignee THEN TRUE
    ELSE user \in UserAdminFlag

\* A test that is content with any assignee at all.
CanCompleteTaskAnyAssignee(t, user) == atomic(t) /\ t.assignee # NONE

can_complete_task(t, user) == atomic(t) /\ t.assignee = user

\* -------------------------------------------------------- api.create_task.txn
CreateTaskTxn(ts, user, parent_task) ==
    LET super_task == GetTask(ts, parent_task)
        id == Len(ts) + 1
        task == NewTask(user, super_task,
                        IF super_task # NoTask THEN ts[super_task].level + 1 ELSE 0)
        ts1 == IF super_task = NoTask THEN ts
               ELSE LET completed == ts[super_task].completed
                        t1 == [ts EXCEPT ![super_task] =
                                 increment_incomplete_subtasks(
                                   [@ EXCEPT !.number_of_subtasks = @ + 1])]
                    IN  IF completed # t1[super_task].completed
                        THEN _propagate_completion(t1, super_task)
                        ELSE t1
    IN  [ error |-> "", tasks |-> Append(ts1, task), aq |-> {},
          iq |-> {IndexJob(id, FALSE)}, task |-> id ]

\* -------------------------------------------------------- api.assign_task.txn
Failed(ts, error) == [ error |-> error, tasks |-> ts, aq |-> {}, iq |-> {}, task |-> NoTask ]

AssignTaskTxn(ts, task_identifier, user, assignee) ==
    LET task == GetTask(ts, task_identifier) IN
    IF task = NoTask THEN Failed(ts, "Task does not exist")
    ELSE IF assignee = NONE THEN Failed(ts, "AttributeError")
    ELSE IF ~can_assign_task(ts[task], user, assignee) THEN Failed(ts, "Cannot assign")
    ELSE LET previous_assignee == ts[task].assignee
             st == QueueAssigneeWorker(
                     [ tasks |-> [ts EXCEPT ![task].assignee = assignee], aq |-> {} ],
                     task, assignee, previous_assignee)
         IN  [ error |-> "", tasks |-> st.tasks, aq |-> st.aq, iq |-> {}, task |-> task ]

\* ------------------------------------------------- api.set_task_completed.txn
\* A transaction without the test of api.py:456-457: it propagates whether
\* the value is new or not.
SetTaskCompletedTxnNoChangeTest(ts, user, task_identifier, completed) ==
    LET task == GetTask(ts, task_identifier) IN
    IF task = NoTask \/ ~atomic(ts[task]) \/ ~can_complete_task(ts[task], user)
    THEN Failed(ts, "Invalid task")
    ELSE LET ts1 == [ts EXCEPT ![task].completed = completed]
         IN  [ error |-> "", tasks |-> _propagate_completion(ts1, task),
               aq |-> {}, iq |-> {}, task |-> task ]

SetTaskCompletedTxn(ts, user, task_identifier, completed) ==
    LET task == GetTask(ts, task_identifier) IN
    IF task = NoTask \/ ~atomic(ts[task]) \/ ~can_complete_task(ts[task], user)
    THEN Failed(ts, "Invalid task")
    ELSE IF ts[task].completed = completed
    THEN [ error |-> "", tasks |-> ts, aq |-> {}, iq |-> {}, task |-> task ]
    ELSE LET ts1 == [ts EXCEPT ![task].completed = completed]
         IN  [ error |-> "", tasks |-> _propagate_completion(ts1, task),
               aq |-> {}, iq |-> {}, task |-> task ]

\* ------------------------------------------------------- api._check_for_cycle
\* A walk that looks at new_parent alone and never climbs to its ancestors.
CycleWalkNoClimb(ts, new_parent, visited) == new_parent \notin visited

RECURSIVE CycleWalk(_, _, _)
CycleWalk(ts, new_parent, visited) ==
    IF new_parent = NoTask THEN TRUE
    ELSE IF new_parent \in visited THEN FALSE
    ELSE CycleWalk(ts,
                   IF ts[new_parent].parent_task # NoTask
                   THEN GetTask(ts, ts[new_parent].parent_task) ELSE NoTask,
                   visited \cup {new_parent})

\* A check that starts from an empty visited set: the task itself is not in it.
CheckForCycleEmptyVisited(ts, task, new_parent) == CycleWalk(ts, new_parent, {})

\* TRUE: allowed; FALSE: a cycle.  Called with new_parent = None the code
\* dereferences None (api.py:486); the caller models that case.
_check_for_cycle(ts, task, new_parent) == CycleWalk(ts, new_parent, {task})

\* ----------------------------------------------------- api._update_task_levels
\* snap: the entities as the transaction's reads see them (Task.get fetches
\* fresh instances); idx: the TaskIndex entities of the snapshot.  The
\* subtasks found through the index are put after every earlier put of the
\* transaction; the task itself is put again afterwards by the caller.
IndexedUnder(idx, task) == {x \in DOMAIN idx : task \in Range(idx[x].hierarchy)}

_update_task_levels(snap, idx, ts, task, level) ==
    IF ts[task].level = level THEN ts
    ELSE LET difference == level - ts[task].level
             subtasks == IndexedUnder(idx, task) \cap DOMAIN snap
         IN  [x \in DOMAIN ts |->
                IF x = task THEN [ts[x] EXCEPT !.level = level]
                ELSE IF x \in subtasks THEN [snap[x] EXCEPT !.level = @ + difference]
                ELSE ts[x]]

\* ------------------------------------------------------ api.change_task_parent
remove_task_from_parent(ts, task, parent) ==
    LET p1 == [ts[parent] EXCEPT !.number_of_subtasks = @ - 1]
        p2 == IF ~ts[task].completed THEN decrement_incomplete_subtasks(p1) ELSE p1
        parent_was_completed == p2.completed
        p3 == IF p2.completed /\ p2.number_of_subtasks = 0
              THEN [p2 EXCEPT !.completed = FALSE] ELSE p2
        p4 == IF ~p3.completed /\ p3.remaining_subtasks = 0 /\ p3.number_of_subtasks > 0
              THEN [p3 EXCEPT !.completed = TRUE] ELSE p3
        ts1 == [ts EXCEPT ![parent] = p4]
    IN  IF p4.completed # parent_was_completed
        THEN _propagate_completion(ts1, parent) ELSE ts1

add_task_to_parent(ts, task, parent) ==
    LET p1 == [ts[parent] EXCEPT !.number_of_subtasks = @ + 1]
        parent_was_completed == p1.completed
        p2 == IF ~ts[task].completed THEN increment_incomplete_subtasks(p1) ELSE p1
        p3 == IF p2.remaining_subtasks = 0 THEN [p2 EXCEPT !.completed = TRUE] ELSE p2
        ts1 == [ts EXCEPT ![parent] = p3]
    IN  IF p3.completed # parent_was_completed
        THEN _propagate_completion(ts1, parent) ELSE ts1

\* A test that takes every member of the domain for an admin.
AdminOfDomainAnyMember(user) == user \in Users

\* api.admin_of_domain: the user's identifier is in Domain.admins.
admin_of_domain(user) == user \in DomainAdmins

ChangeTaskParentTxn(ts, idx, user, task_identifier, new_parent_identifier) ==
    LET task == GetTask(ts, task_identifier)
        new_parent == GetTask(ts, new_parent_identifier)
    IN
    IF task = NoTask THEN Failed(ts, "AttributeError")
    ELSE IF ts[task].user # user /\ ~admin_of_domain(user)
    THEN Failed(ts, "User did not create task")
    ELSE IF new_parent = NoTask THEN Failed(ts, "AttributeError")
    ELSE IF ~_check_for_cycle(ts, task, new_parent) THEN Failed(ts, "Cycle detected")
    ELSE
    LET parent == GetTask(ts, ts[task].parent_task)
        st0 == [ tasks |-> ts, aq |-> {} ]
        st1 == IF parent = NoTask THEN st0
               ELSE QueueAssigneeWorker(
                      [ tasks |-> remove_task_from_parent(st0.tasks, task, parent),
                        aq |-> st0.aq ],
                      parent, NONE, ts[task].assignee)
        st2 == [ tasks |-> [st1.tasks EXCEPT ![task].parent_task = new_parent],
                 aq |-> st1.aq ]
        st3 == IF new_parent = NoTask THEN st2
               ELSE QueueAssigneeWorker(
                      [ tasks |-> add_task_to_parent(st2.tasks, task, new_parent),
                        aq |-> st2.aq ],
                      new_parent, ts[task].assignee, NONE)
        level == IF new_parent = NoTask THEN 0 ELSE st3.tasks[new_parent].level + 1
    IN  [ error |-> "",
          tasks |-> _update_task_levels(ts, idx, st3.tasks, task, level),
          aq |-> st3.aq, iq |-> {IndexJob(task, FALSE)}, task |-> task ]
\* ------------------------------------------------ workers.UpdateTaskIndex.post
\* A non-empty request string is true in Python, whatever it spells.
StrTruthy(s) == s # ""

\* A job that takes a missing parent index for an empty one and writes the
\* path it can make of it.
UpdateTaskIndexTxnPartialPath(ts, idx, job) ==
    LET task == GetTask(ts, job.task) IN
    IF task = NoTask
    THEN [ status |-> 200, changed |-> FALSE, taskIndex |-> idx ]
    ELSE LET parent_identifier == ts[task].parent_task
             parent_hierarchy == IF parent_identifier \in DOMAIN idx
                                 THEN idx[parent_identifier].hierarchy ELSE <<>>
             hierarchy == IF parent_identifier # NoTask
                          THEN Append(parent_hierarchy, parent_identifier)
                          ELSE parent_hierarchy
         IN  [ status |-> 200, changed |-> TRUE,
               taskIndex |-> DictSet(idx, task, [hierarchy |-> hierarchy]) ]

\* A job that reads the parameter 'False' as false and so relies on the
\* comparison of workers.py:76 alone.
UpdateTaskIndexTxnForceAsBool(ts, idx, job) ==
    LET task == GetTask(ts, job.task) IN
    IF task = NoTask
    THEN [ status |-> 200, changed |-> FALSE, taskIndex |-> idx ]
    ELSE
    LET new_index == task \notin DOMAIN idx
        index_hierarchy == IF new_index THEN <<>> ELSE idx[task].hierarchy
        parent_identifier == ts[task].parent_task
    IN
    IF parent_identifier # NoTask /\ parent_identifier \notin DOMAIN idx
    THEN [ status |-> 500, changed |-> FALSE, taskIndex |-> idx ]
    ELSE
    LET parent_hierarchy == IF parent_identifier # NoTask
                            THEN idx[parent_identifier].hierarchy ELSE <<>>
        hierarchy == IF parent_identifier # NoTask
                     THEN Append(parent_hierarchy, parent_identifier)
                     ELSE parent_hierarchy
    IN
    IF job.force_update = "True" \/ new_index
       \/ Range(index_hierarchy) # Range(hierarchy)
    THEN [ status |-> 200, changed |-> TRUE,
           taskIndex |-> DictSet(idx, task, [hierarchy |-> hierarchy]) ]
    ELSE [ status |-> 200, changed |-> FALSE, taskIndex |-> idx ]

UpdateTaskIndexTxn(ts, idx, job) ==
    LET task == GetTask(ts, job.task) IN
    IF task = NoTask
    THEN [ status |-> 200, changed |-> FALSE, taskIndex |-> idx ]
    ELSE
    LET new_index == task \notin DOMAIN idx
        index_hierarchy == IF new_index THEN <<>> ELSE idx[task].hierarchy
        parent_identifier == ts[task].parent_task
    IN
    IF parent_identifier # NoTask /\ parent_identifier \notin DOMAIN idx
    THEN [ status |-> 500, changed |-> FALSE, taskIndex |-> idx ]
    ELSE
    LET parent_hierarchy == IF parent_identifier # NoTask
                            THEN idx[parent_identifier].hierarchy ELSE <<>>
        hierarchy == IF parent_identifier # NoTask
                     THEN Append(parent_hierarchy, parent_identifier)
                     ELSE parent_hierarchy
    IN
    IF StrTruthy(job.force_update) \/ new_index
       \/ Range(index_hierarchy) # Range(hierarchy)
    THEN [ status |-> 200, changed |-> TRUE,
           taskIndex |-> DictSet(idx, task, [hierarchy |-> hierarchy]) ]
    ELSE [ status |-> 200, changed |-> FALSE, taskIndex |-> idx ]

\* A job that queues nothing for the subtasks.
SubtaskJobsNone(ts, job) == {}

\* The jobs queued for the subtasks after the transaction (workers.py:89-97).
SubtaskJobs(ts, job) ==
    {IndexJobParam(c, job.force_update) : c \in Children(ts, job.task)}

\* -------------------------------------------- workers.UpdateAssigneeIndex.post
\* Reference counting that never counts down.
UpdateReferenceCountNoDecrement(reference_counts, add_assignee, remove_assignee) ==
    IF StrTruthy(add_assignee)
    THEN DictSet(reference_counts, add_assignee,
                 DictGet(reference_counts, add_assignee, 0) + 1)
    ELSE reference_counts

\* Reference counting that takes a missing count for 0 and stores it.
UpdateReferenceCountDefaultZero(reference_counts, add_assignee, remove_assignee) ==
    LET r1 == IF StrTruthy(remove_assignee)
              THEN IF ~(DictGet(reference_counts, remove_assignee, 0) > 0)
                   THEN DictSet(reference_counts, remove_assignee, 0)
                   ELSE DictSet(reference_counts, remove_assignee,
                                reference_counts[remove_assignee] - 1)
              ELSE reference_counts
    IN  IF StrTruthy(add_assignee)
        THEN DictSet(r1, add_assignee, DictGet(r1, add_assignee, 0) + 1)
        ELSE r1

update_reference_count(reference_counts, add_assignee, remove_assignee) ==
    LET r1 == IF remove_assignee \in DOMAIN reference_counts
              THEN IF ~(reference_counts[remove_assignee] > 0)
                   THEN reference_counts
                   ELSE DictSet(reference_counts, remove_assignee,
                                reference_counts[remove_assignee] - 1)
              ELSE reference_counts
    IN  IF StrTruthy(add_assignee)
        THEN DictSet(r1, add_assignee, DictGet(r1, add_assignee, 0) + 1)
        ELSE r1

\* A removal that leaves the list as it is.
ListRemoveNothing(s, x) == s

RECURSIVE ListRemove(_, _)
ListRemove(s, x) ==
    IF s = <<>> THEN <<>>
    ELSE IF Head(s) = x THEN Tail(s)
    ELSE <<Head(s)>> \o ListRemove(Tail(s), x)

\* A handler that passes on every added user, new to the index or not.
ApplyInTurnPassingOnEveryAdd(index, job) ==
    LET reference_counts == update_reference_count(index.reference_counts,
                                job.add_assignee, job.remove_assignee)
        added == DictGet(reference_counts, job.add_assignee, -1) = 1
        removed == DictGet(reference_counts, job.remove_assignee, -1) = 0
        assignees1 == IF added THEN Append(index.assignees, job.add_assignee)
                      ELSE index.assignees
    IN
    IF removed /\ job.remove_assignee \notin Range(assignees1)
    THEN [ index |-> index, applied |-> FALSE, propagate_add_assignee |-> NONE,
           propagate_remove_assignee |-> NONE, status |-> 500 ]
    ELSE [ index |-> [ assignees |-> IF removed
                                     THEN ListRemove(assignees1, job.remove_assignee)
                                     ELSE assignees1,
                       reference_counts |-> IF removed
                                            THEN DictDel(reference_counts, job.remove_assignee)
                                            ELSE reference_counts,
                       sequence |-> index.sequence + 1 ],
           applied |-> TRUE,
           propagate_add_assignee |-> IF StrTruthy(job.add_assignee)
                                      THEN job.add_assignee ELSE NONE,
           propagate_remove_assignee |-> IF removed THEN job.remove_assignee ELSE NONE,
           status |-> 200 ]

\* workers.py:180-199, 205: the delta whose turn it is.
ApplyInTurn(index, job) ==
    LET reference_counts == update_reference_count(index.reference_counts,
                                job.add_assignee, job.remove_assignee)
        added == DictGet(reference_counts, job.add_assignee, -1) = 1
        removed == DictGet(reference_counts, job.remove_assignee, -1) = 0
        assignees1 == IF added THEN Append(index.assignees, job.add_assignee)
                      ELSE index.assignees
    IN
    IF removed /\ job.remove_assignee \notin Range(assignees1)
    THEN [ index |-> index, applied |-> FALSE, propagate_add_assignee |-> NONE,
           propagate_remove_assignee |-> NONE, status |-> 500 ]
    ELSE [ index |-> [ assignees |-> IF removed
                                     THEN ListRemove(assignees1, job.remove_assignee)
                                     ELSE assignees1,
                       reference_counts |-> IF removed
                                            THEN DictDel(reference_counts, job.remove_assignee)
                                            ELSE reference_counts,
                       sequence |-> index.sequence + 1 ],
           applied |-> TRUE,
           propagate_add_assignee |-> IF added THEN job.add_assignee ELSE NONE,
           propagate_remove_assignee |-> IF removed THEN job.remove_assignee ELSE NONE,
           status |-> 200 ]

NotApplied(index, status) ==
    [ index |-> index, applied |-> FALSE, propagate_add_assignee |-> NONE,
      propagate_remove_assignee |-> NONE, status |-> status ]

\* A handler without the duplicate test of workers.py:177-178.
ApplyAssigneeDeltaNoDuplicateTest(index, job) ==
    IF job.add_assignee = job.remove_assignee THEN NotApplied(index, 500)
    ELSE IF index.sequence < job.sequence THEN NotApplied(index, 500)
    ELSE ApplyInTurn(index, job)

\* A handler without the not-our-time-yet test of workers.py:174-176.
ApplyAssigneeDeltaNoTurnTest(index, job) ==
    IF job.add_assignee = job.remove_assignee THEN NotApplied(index, 500)
    ELSE IF index.sequence > job.sequence THEN NotApplied(index, 200)
    ELSE ApplyInTurn(index, job)

\* The transaction on one AssigneeIndex (workers.py:146, 173-199, 205):
\* status 500 asks the queue to deliver the job again.
ApplyAssigneeDelta(index, job) ==
    IF job.add_assignee = job.remove_assignee THEN NotApplied(index, 500)
    ELSE IF index.sequence < job.sequence THEN NotApplied(index, 500)
    ELSE IF index.sequence > job.sequence THEN NotApplied(index, 200)
    ELSE ApplyInTurn(index, job)

GetAssigneeIndex(aidx, task) == IF task \in DOMAIN aidx THEN aidx[task] ELSE NewAssigneeIndex

UpdateAssigneeIndexTxn(ts, aidx, job) ==
    LET task == GetTask(ts, job.task) IN
    IF task = NoTask
    THEN [ status |-> 200, applied |-> FALSE, tasks |-> ts, assigneeIndex |-> aidx, aq |-> {} ]
    ELSE
    LET r == ApplyAssigneeDelta(GetAssigneeIndex(aidx, task), job)
        parent_task == ts[task].parent_task
        st == IF r.applied /\ parent_task # NoTask
              THEN QueueAssigneeWorker([tasks |-> ts, aq |-> {}], parent_task,
                                       r.propagate_add_assignee,
                                       r.propagate_remove_assignee)
              ELSE [tasks |-> ts, aq |-> {}]
    IN  [ status |-> r.status, applied |-> r.applied, tasks |-> st.tasks,
          assigneeIndex |-> IF r.applied THEN DictSet(aidx, task, r.index) ELSE aidx,
          aq |-> st.aq ]
\* ---------------------------------------------------------------- actions
\* The guards' caps keep the counters of the explored states finite.
Bounded(ts) ==
    \A t \in DOMAIN ts :
        /\ ts[t].assignee_index_sequence <= MaxSequence
        /\ ts[t].remaining_subtasks <= MaxRemaining
        /\ ts[t].remaining_subtasks >= 0 - MaxRemaining

NoDelta == [ on |-> FALSE ]

\* No subtask query has been answered.
NoQuery == [ on |-> FALSE ]

\* The tasks the mappers have run on: none yet.
NoRebuild == [ cleared |-> {}, rebuilt |-> {} ]

Init ==
    /\ tasks = <<>>
    /\ taskIndex = EmptyDict
    /\ assigneeIndex = EmptyDict
    /\ indexQueue = {}
    /\ assigneeQueue = {}
    /\ pendingAssign = {}
    /\ moves = 0
    /\ delta = NoDelta
    /\ query = NoQuery
    /\ rebuild = NoRebuild

\* A transaction that raised leaves the store as it was.
Commit(r) ==
    IF r.error # ""
    THEN UNCHANGED <<tasks, indexQueue, assigneeQueue>>
    ELSE /\ Bounded(r.tasks)
         /\ tasks' = r.tasks
         /\ indexQueue' = indexQueue \cup r.iq
         /\ assigneeQueue' = assigneeQueue \cup r.aq

\* api.create_task: the transaction; the assignment, if any, is a second
\* transaction started after this one has committed (api.py:335-337).
CreateTask(user, assignee, parent_task) ==
    /\ Len(tasks) < MaxTasks
    /\ LET r == CreateTaskTxn(tasks, user, parent_task) IN
       /\ Commit(r)
       /\ pendingAssign' = IF Truthy(assignee)
                           THEN pendingAssign \cup {[task |-> r.task, user |-> user,
                                                  assignee |-> assignee]}
                           ELSE pendingAssign
    /\ UNCHANGED <<taskIndex, assigneeIndex, moves, delta, query, rebuild>>

\* api.create_task, line 337: assign_task(domain, task.identifier(), user, user).
CreateTaskAssign(p) ==
    /\ p \in pendingAssign
    /\ LET r == AssignTaskTxn(tasks, p.task, p.user, p.user) IN
       /\ Commit(r)
    /\ pendingAssign' = pendingAssign \ {p}
    /\ UNCHANGED <<taskIndex, assigneeIndex, moves, delta, query, rebuild>>

AssignTask(task_identifier, user, assignee) ==
    /\ LET r == AssignTaskTxn(tasks, task_identifier, user, assignee) IN
       /\ Commit(r)
    /\ UNCHANGED <<taskIndex, assigneeIndex, pendingAssign, moves, delta, query, rebuild>>

SetTaskCompleted(user, task_identifier, completed) ==
    /\ LET r == SetTaskCompletedTxn(tasks, user, task_identifier, completed) IN
       /\ Commit(r)
    /\ UNCHANGED <<taskIndex, assigneeIndex, pendingAssign, moves, delta, query, rebuild>>

ChangeTaskParent(user, task_identifier, new_parent_identifier) ==
    /\ LET r == ChangeTaskParentTxn(tasks, taskIndex, user, task_identifier,
                                    new_parent_identifier) IN
       /\ Commit(r)
       /\ moves' = IF r.error = "" THEN moves + 1 ELSE moves
       /\ r.error = "" => moves < MaxMoves
    /\ UNCHANGED <<taskIndex, assigneeIndex, pendingAssign, delta, query, rebuild>>

\* The queue delivers a job at least once: keep = TRUE leaves a job that
\* ended with status 200 in the queue, to be delivered again.
DeliverIndexJob(job, keep) ==
    /\ job \in indexQueue
    /\ LET r == UpdateTaskIndexTxn(tasks, taskIndex, job)
           done == IF r.status = 200 /\ ~keep THEN {job} ELSE {}
       IN
       /\ taskIndex' = r.taskIndex
       /\ indexQueue' = (indexQueue \ done)
                          \cup (IF r.changed THEN SubtaskJobs(tasks, job) ELSE {})
    /\ UNCHANGED <<tasks, assigneeIndex, assigneeQueue, pendingAssign, moves, delta, query, rebuild>>

DeliverAssigneeJob(job, keep) ==
    /\ job \in assigneeQueue
    /\ LET r == UpdateAssigneeIndexTxn(tasks, assigneeIndex, job)
           done == IF r.status = 200 /\ ~keep THEN {job} ELSE {}
       IN
       /\ tasks' = r.tasks
       /\ assigneeIndex' = r.assigneeIndex
       /\ assigneeQueue' = (assigneeQueue \ done) \cup r.aq
    /\ UNCHANGED <<taskIndex, indexQueue, pendingAssign, moves, delta, query, rebuild>>

TaskArgs == 0 .. MaxTasks

\* The tree and its completion counters: every mutation of api.py, and the
\* hierarchy jobs that build the TaskIndex read by _update_task_levels.
\* alice creates the tasks, takes them and completes them; bob is a member
\* of the domain who created nothing and is no admin.
Next ==
    \/ \E p \in TaskArgs : CreateTask("alice", NONE, p)
    \/ \E t \in TaskArgs \ {0} : AssignTask(t, "alice", "alice")
    \/ \E u \in Users, t \in TaskArgs \ {0}, c \in BOOLEAN : SetTaskCompleted(u, t, c)
    \/ \E u \in Users, t \in TaskArgs \ {0}, n \in TaskArgs : ChangeTaskParent(u, t, n)
    \/ \E j \in indexQueue, keep \in BOOLEAN : DeliverIndexJob(j, keep)

Spec == Init /\ [][Next]_vars

\* ------------------------------------------------------------ tree notions
RECURSIVE ReachesRoot(_, _, _)
ReachesRoot(ts, t, visited) ==
    IF t = NoTask THEN TRUE
    ELSE IF t \in visited \/ t \notin DOMAIN ts THEN FALSE
    ELSE ReachesRoot(ts, ts[t].parent_task, visited \cup {t})

\* The proper ancestors of t, following parent_task (at most Len(ts) links).
RECURSIVE AncestorsUpTo(_, _, _)
AncestorsUpTo(ts, t, n) ==
    IF n = 0 \/ t \notin DOMAIN ts THEN {}
    ELSE IF ts[t].parent_task = NoTask THEN {}
    ELSE {ts[t].parent_task} \cup AncestorsUpTo(ts, ts[t].parent_task, n - 1)

Ancestors(ts, t) == AncestorsUpTo(ts, t, Len(ts))

\* x is t or a descendant of t.
InSubtree(ts, x, t) == x = t \/ t \in Ancestors(ts, x)

Incomplete(ts, p) == {c \in Children(ts, p) : ~ts[c].completed}

\* The users assigned to the tasks without children in the subtree of t.
AssignedInSubtree(ts, t) ==
    {ts[x].assignee : x \in {y \in DOMAIN ts : InSubtree(ts, y, t) /\ Children(ts, y) = {}}}
        \ {NONE}

IndexAssignees(aidx, t) == Range(GetAssigneeIndex(aidx, t).assignees)

\* No job in the assignee queue is still to be applied: those left are
\* copies of jobs whose turn has passed.
AssigneeJobsApplied ==
    \A j \in assigneeQueue :
        j.task \in TaskIds => j.sequence < GetAssigneeIndex(assigneeIndex, j.task).sequence

\* ------------------------------------- assignments on a forest that stays put
\* The forests create_task builds in an empty domain: the n-th task is
\* created as a root or under one of the n-1 tasks before it.
RECURSIVE Forests(_)
Forests(n) ==
    IF n = 0 THEN {<<>>}
    ELSE {CreateTaskTxn(f, "alice", p).tasks : f \in Forests(n - 1), p \in 0 .. (n - 1)}

RECURSIVE HierarchyOf(_, _)
HierarchyOf(ts, t) ==
    IF ts[t].parent_task = NoTask THEN <<>>
    ELSE Append(HierarchyOf(ts, ts[t].parent_task), ts[t].parent_task)

\* The TaskIndex once UpdateTaskIndex has run for every task of the forest.
BuiltIndex(ts) == [t \in DOMAIN ts |-> [hierarchy |-> HierarchyOf(ts, t)]]

InitAssign ==
    /\ tasks \in UNION {Forests(n) : n \in 1 .. MaxTasks}
    /\ taskIndex = BuiltIndex(tasks)
    /\ assigneeIndex = EmptyDict
    /\ indexQueue = {}
    /\ assigneeQueue = {}
    /\ pendingAssign = {}
    /\ moves = 0
    /\ delta = NoDelta
    /\ query = NoQuery
    /\ rebuild = NoRebuild

NextAssign ==
    \/ \E t \in TaskArgs \ {0}, u \in Users, a \in Users \cup {NONE} : AssignTask(t, u, a)
    \/ \E j \in assigneeQueue, keep \in BOOLEAN : DeliverAssigneeJob(j, keep)

SpecAssign == InitAssign /\ [][NextAssign]_vars

\* ------------------------------------ tasks created, taken and moved, indexed
NextMove ==
    \/ \E a \in {NONE, "alice"}, p \in TaskArgs : CreateTask("alice", a, p)
    \/ \E p \in pendingAssign : CreateTaskAssign(p)
    \/ \E t \in TaskArgs \ {0} : AssignTask(t, "alice", "alice")
    \/ \E t \in TaskArgs \ {0}, n \in TaskArgs : ChangeTaskParent("alice", t, n)
    \/ \E j \in assigneeQueue : DeliverAssigneeJob(j, FALSE)

SpecMove == Init /\ [][NextMove]_vars

\* -------------------------- tasks created, then assigned and completed
\* Every forest of up to FlowTasks tasks that create_task builds, indexed;
\* from there on tasks are assigned, completed and reopened.
InitFlow ==
    /\ tasks \in UNION {Forests(n) : n \in 1 .. FlowTasks}
    /\ taskIndex = BuiltIndex(tasks)
    /\ assigneeIndex = EmptyDict
    /\ indexQueue = {}
    /\ assigneeQueue = {}
    /\ pendingAssign = {}
    /\ moves = 0
    /\ delta = NoDelta
    /\ query = NoQuery
    /\ rebuild = NoRebuild

NextFlow ==
    \/ \E t \in DOMAIN tasks, a \in Users : AssignTask(t, "alice", a)
    \/ \E u \in Users, t \in DOMAIN tasks, c \in BOOLEAN : SetTaskCompleted(u, t, c)
    \/ \E j \in assigneeQueue : DeliverAssigneeJob(j, FALSE)

SpecFlow == InitFlow /\ [][NextFlow]_vars

\* ------------------------------------------- tasks created with an assignee
NextCreate ==
    \/ \E u \in Users, a \in Users \cup {NONE}, p \in TaskArgs : CreateTask(u, a, p)
    \/ \E p \in pendingAssign : CreateTaskAssign(p)
    \/ \E j \in indexQueue : DeliverIndexJob(j, FALSE)
    \/ \E j \in assigneeQueue, keep \in BOOLEAN : DeliverAssigneeJob(j, keep)

SpecCreate == Init /\ [][NextCreate]_vars

\* ----------------------------------- the deltas of one task, in any order
\* A delta names the user it adds and the user it removes; one of them may
\* be None, and queue_worker drops a delta that names the same for both.
DeltaPairs == {d \in (Users \cup {NONE}) \X (Users \cup {NONE}) : d[1] # d[2]}

RECURSIVE DeltaSeqs(_)
DeltaSeqs(n) ==
    IF n = 0 THEN {<<>>}
    ELSE {Append(s, d) : s \in DeltaSeqs(n - 1), d \in DeltaPairs}

\* A root and its subtask, the task the deltas are for.
DeltaRoot == CreateTaskTxn(<<>>, "alice", NoTask).tasks
DeltaForest == CreateTaskTxn(DeltaRoot, "alice", Len(DeltaRoot)).tasks

RECURSIVE QueueDeltas(_, _, _, _)
QueueDeltas(st, task, s, i) ==
    IF i > Len(s) THEN st
    ELSE QueueDeltas(QueueAssigneeWorker(st, task, s[i][1], s[i][2]), task, s, i + 1)

InitDelta ==
    \E s \in UNION {DeltaSeqs(n) : n \in 1 .. MaxDeltas} :
        LET task == Len(DeltaForest)
            st == QueueDeltas([tasks |-> DeltaForest, aq |-> {}], task, s, 1)
        IN  /\ tasks = st.tasks
            /\ assigneeQueue = st.aq
            /\ delta = [ on |-> TRUE, task |-> task, jobs |-> s ]
            /\ query = NoQuery
            /\ rebuild = NoRebuild
            /\ taskIndex = BuiltIndex(DeltaForest)
            /\ assigneeIndex = EmptyDict
            /\ indexQueue = {}
            /\ pendingAssign = {}
            /\ moves = 0

NextDelta ==
    \E j \in assigneeQueue, keep \in BOOLEAN :
        /\ delta.on
        /\ j.task = delta.task
        /\ DeliverAssigneeJob(j, keep)

SpecDelta == InitDelta /\ [][NextDelta]_vars

\* The first n deltas applied one after the other, each in its turn: the
\* index they leave and the deltas they pass on to the parent, in order.
RECURSIVE InOrder(_, _, _)
InOrder(s, n, task) ==
    IF n = 0 THEN [ index |-> NewAssigneeIndex, out |-> <<>> ]
    ELSE LET before == InOrder(s, n - 1, task)
             r == ApplyAssigneeDelta(before.index,
                                     AssigneeJob(task, n - 1, s[n][1], s[n][2]))
         IN  [ index |-> r.index,
               out |-> IF r.propagate_add_assignee = r.propagate_remove_assignee
                       THEN before.out
                       ELSE Append(before.out, <<r.propagate_add_assignee,
                                                 r.propagate_remove_assignee>>) ]

\* ------------------------------------------------------- api._sort_tasks
\* Task.time is set when the task is created (model.py:192), and the
\* identifiers of this model are handed out in the order of creation.
time(t) == t

cmp(a, b) == IF a < b THEN -1 ELSE IF a > b THEN 1 ELSE 0

\* cmp on bool: False sorts before True.
Rank(b) == IF b THEN 1 ELSE 0

task_cmp(ts, t1, t2) ==
    IF ts[t1].completed # ts[t2].completed
    THEN cmp(Rank(ts[t1].completed), Rank(ts[t2].completed))
    ELSE 0 - cmp(time(t1), time(t2))

\* list.sort(cmp=task_cmp): a stable sort.
RECURSIVE InsertSorted(_, _, _)
InsertSorted(ts, s, x) ==
    IF s = <<>> THEN <<x>>
    ELSE IF task_cmp(ts, x, Head(s)) < 0 THEN <<x>> \o s
    ELSE <<Head(s)>> \o InsertSorted(ts, Tail(s), x)

RECURSIVE _sort_tasks(_, _)
_sort_tasks(ts, list) ==
    IF list = <<>> THEN <<>>
    ELSE InsertSorted(ts, _sort_tasks(ts, SubSeq(list, 1, Len(list) - 1)), list[Len(list)])

\* ------------------------------------------------------ api._group_tasks
\* nodes: the tasks that have a _Tree node, in the order the nodes were
\* made.  A node is appended to its parent's children, or to roots, when it
\* is made, so this order is the order of both lists.  index: the
\* identifiers of the input list.
RECURSIVE fetch_tree(_, _, _, _)
fetch_tree(ts, index, nodes, task_identifier) ==
    IF task_identifier = NoTask \/ task_identifier \notin index THEN nodes
    ELSE IF task_identifier \in Range(nodes) THEN nodes
    ELSE Append(fetch_tree(ts, index, nodes, ts[task_identifier].parent_task),
                task_identifier)

RECURSIVE TreeNodes(_, _, _, _)
TreeNodes(ts, index, nodes, list) ==
    IF list = <<>> THEN nodes
    ELSE TreeNodes(ts, index, fetch_tree(ts, index, nodes, Head(list)), Tail(list))

\* _Tree.pre_order over a list of sibling nodes.
RECURSIVE pre_order(_, _, _)
pre_order(ts, nodes, siblings) ==
    IF siblings = <<>> THEN <<>>
    ELSE LET value == Head(siblings)
             children == SelectSeq(nodes, LAMBDA n : ts[n].parent_task = value)
         IN  <<value>> \o pre_order(ts, nodes, children)
                       \o pre_order(ts, nodes, Tail(siblings))

_group_tasks(ts, list) ==
    LET index == Range(list)
        nodes == TreeNodes(ts, index, <<>>, list)
        roots == SelectSeq(nodes, LAMBDA n : ts[n].parent_task \notin index)
    IN  pre_order(ts, nodes, roots)

\* ---------------------------------------------------- api.get_all_subtasks
\* The entities one query of the loop matches (api.py:809-812).
LevelQuery(ts, idx, task, depth) ==
    {t \in DOMAIN idx \cap DOMAIN ts :
        /\ Len(idx[t].hierarchy) = ts[task].level + depth + 1
        /\ task \in Range(idx[t].hierarchy)}

Min(a, b) == IF a < b THEN a ELSE b

\* A set of identifiers as a list, in the order of the keys.
RECURSIVE KeyOrder(_)
KeyOrder(s) ==
    IF s = {} THEN <<>>
    ELSE LET least == CHOOSE x \in s : \A y \in s : x <= y
         IN  <<least>> \o KeyOrder(s \ {least})

\* The lists the loop of api.py:808-818 can build: fetch(limit) returns at
\* most limit of the matching entities, and which of them is for the
\* datastore to say.
RECURSIVE Fetches(_, _, _, _, _)
Fetches(ts, idx, task, depth, limit) ==
    LET matching == LevelQuery(ts, idx, task, depth)
        n == Min(limit, Cardinality(matching))
    IN  UNION {
          IF fetched = {} \/ limit - n < 1 THEN {KeyOrder(fetched)}
          ELSE {KeyOrder(fetched) \o rest :
                  rest \in Fetches(ts, idx, task, depth + 1, limit - n)}
          : fetched \in {c \in SUBSET matching : Cardinality(c) = n} }

GetAllSubtasks(task, limit) ==
    /\ task \in TaskIds
    /\ \E fetched \in Fetches(tasks, taskIndex, task, 0, limit) :
         query' = [ on |-> TRUE, task |-> task, limit |-> limit, fetched |-> fetched,
                    output |-> _group_tasks(tasks, _sort_tasks(tasks, fetched)) ]
    /\ UNCHANGED <<tasks, taskIndex, assigneeIndex, indexQueue, assigneeQueue,
                   pendingAssign, moves, delta, rebuild>>

\* The forests of up to QueryTasks tasks, indexed, in which alice has taken
\* and completed some of the tasks without subtasks.
RECURSIVE TakeAndComplete(_, _)
TakeAndComplete(st, done) ==
    IF done = {} THEN st
    ELSE LET t == CHOOSE x \in done : \A y \in done : x <= y
             a == AssignTaskTxn(st.tasks, t, "alice", "alice")
             c == SetTaskCompletedTxn(a.tasks, "alice", t, TRUE)
         IN  TakeAndComplete([tasks |-> c.tasks, aq |-> st.aq \cup a.aq], done \ {t})

InitQuery ==
    \E f \in UNION {Forests(n) : n \in 1 .. QueryTasks} :
      \E done \in SUBSET {t \in DOMAIN f : atomic(f[t])} :
        LET st == TakeAndComplete([tasks |-> f, aq |-> {}], done)
        IN  /\ tasks = st.tasks
            /\ taskIndex = BuiltIndex(f)
            /\ assigneeIndex = EmptyDict
            /\ indexQueue = {}
            /\ assigneeQueue = st.aq
            /\ pendingAssign = {}
            /\ moves = 0
            /\ delta = NoDelta
            /\ query = NoQuery
            /\ rebuild = NoRebuild

\* At most one task is moved and the hierarchy jobs run, in any order,
\* before the query is answered; the answer is kept next to the store it
\* was read from.
NextQuery ==
    \/ /\ ~query.on
       /\ moves = 0
       /\ \E t \in 1 .. QueryTasks, n \in 1 .. QueryTasks : ChangeTaskParent("alice", t, n)
    \/ /\ ~query.on
       /\ \E j \in indexQueue : DeliverIndexJob(j, FALSE)
    \/ \E task \in 1 .. QueryTasks, limit \in 0 .. QueryLimit : GetAllSubtasks(task, limit)

SpecQuery == InitQuery /\ [][NextQuery]_vars

\* --------------------------------------- paths that moves put out of date
\* A forest of QueryTasks tasks, indexed, and one move made in it: the
\* moved task's hierarchy job is in the queue and the indexes still hold
\* the paths of before.  More moves and the hierarchy jobs follow.
InitPath ==
    \E f \in Forests(QueryTasks) : \E t \in DOMAIN f, n \in DOMAIN f :
        LET r == ChangeTaskParentTxn(f, BuiltIndex(f), "alice", t, n) IN
        /\ r.error = ""
        /\ tasks = r.tasks
        /\ taskIndex = BuiltIndex(f)
        /\ assigneeIndex = EmptyDict
        /\ indexQueue = r.iq
        /\ assigneeQueue = r.aq
        /\ pendingAssign = {}
        /\ moves = 0
        /\ delta = NoDelta
        /\ query = NoQuery
        /\ rebuild = NoRebuild

NextPath ==
    \/ \E t \in DOMAIN tasks, n \in DOMAIN tasks : ChangeTaskParent("alice", t, n)
    \/ \E j \in indexQueue : DeliverIndexJob(j, FALSE)

SpecPath == InitPath /\ [][NextPath]_vars

\* ------------------------- indexed tasks taken and moved, both queues delivered
\* The forests of InitAssign, every task indexed; tasks are assigned and
\* moved while the jobs of both queues are delivered, so that a move can
\* meet a TaskIndex that an earlier move has put out of date.
NextStale ==
    \/ \E t \in DOMAIN tasks : AssignTask(t, "alice", "alice")
    \/ \E t \in DOMAIN tasks, n \in DOMAIN tasks : ChangeTaskParent("alice", t, n)
    \/ \E j \in indexQueue : DeliverIndexJob(j, FALSE)
    \/ \E j \in assigneeQueue : DeliverAssigneeJob(j, FALSE)

SpecStale == InitAssign /\ [][NextStale]_vars

\* ------------------------------- a hierarchy job that fails while it fans out
\* The transaction has committed the TaskIndex (workers.py:83); the loop
\* that queues the subtasks' jobs (workers.py:92-97) is outside it and has
\* queued only some of them when the handler fails.  The job stays in the
\* queue.
DeliverIndexJobFailing(job, queued) ==
    /\ job \in indexQueue
    /\ LET r == UpdateTaskIndexTxn(tasks, taskIndex, job) IN
       /\ r.changed
       /\ queued \subseteq SubtaskJobs(tasks, job)
       /\ queued # SubtaskJobs(tasks, job)
       /\ taskIndex' = r.taskIndex
       /\ indexQueue' = indexQueue \cup queued
    /\ UNCHANGED <<tasks, assigneeIndex, assigneeQueue, pendingAssign, moves, delta, query, rebuild>>

NextRedeliver ==
    \/ \E j \in indexQueue : DeliverIndexJob(j, FALSE)
    \/ \E j \in indexQueue : \E queued \in SUBSET SubtaskJobs(tasks, j) :
          DeliverIndexJobFailing(j, queued)

\* The queue delivers a job again until its handler ends with status 200.
FairRedelivery ==
    \A t \in 1 .. QueryTasks :
        WF_vars(\E j \in indexQueue : j.task = t /\ DeliverIndexJob(j, FALSE))

SpecRedeliver == InitPath /\ [][NextRedeliver]_vars /\ FairRedelivery

\* ---------------------------------------------- mappers: clear, then rebuild
\* mappers.clear_all_indices: the task's TaskIndex is deleted and its
\* assignee_index_sequence set to 0.  The AssigneeIndex is left alone.
\* The map over all tasks is started on a domain whose queues are empty.
ClearAllIndices(task) ==
    /\ task \in TaskIds \ rebuild.cleared
    /\ rebuild.cleared = {} => (indexQueue = {} /\ assigneeQueue = {})
    /\ taskIndex' = DictDel(taskIndex, task)
    /\ tasks' = [tasks EXCEPT ![task].assignee_index_sequence = 0]
    /\ rebuild' = [rebuild EXCEPT !.cleared = @ \cup {task}]
    /\ UNCHANGED <<assigneeIndex, indexQueue, assigneeQueue, pendingAssign, moves,
                   delta, query>>

\* mappers.rebuild_indices, run once every task has been cleared: one
\* transaction queues the task's hierarchy job and the delta that adds its
\* assignee.
RebuildIndices(task) ==
    /\ rebuild.cleared = TaskIds
    /\ task \in TaskIds \ rebuild.rebuilt
    /\ LET st == QueueAssigneeWorker([tasks |-> tasks, aq |-> {}], task,
                                     tasks[task].assignee, NONE)
       IN  /\ tasks' = st.tasks
           /\ assigneeQueue' = assigneeQueue \cup st.aq
           /\ indexQueue' = indexQueue \cup {IndexJob(task, FALSE)}
    /\ rebuild' = [rebuild EXCEPT !.rebuilt = @ \cup {task}]
    /\ UNCHANGED <<taskIndex, assigneeIndex, pendingAssign, moves, delta, query>>

\* Tasks are assigned and the deltas delivered; then the two maps run, one
\* after the other, and the jobs they queue are delivered.
NextRebuild ==
    \/ /\ rebuild = NoRebuild
       /\ \E t \in DOMAIN tasks, a \in Users : AssignTask(t, "alice", a)
    \/ \E j \in assigneeQueue : DeliverAssigneeJob(j, FALSE)
    \/ \E j \in indexQueue : DeliverIndexJob(j, FALSE)
    \/ \E t \in DOMAIN tasks : ClearAllIndices(t)
    \/ \E t \in DOMAIN tasks : RebuildIndices(t)

SpecRebuild == InitAssign /\ [][NextRebuild]_vars

\* ------------------------------------- mutations that end, jobs delivered fairly
\* A mutation is an assignment to alice or a move by alice; one that raises
\* leaves the store as it was.  No job is delivered while they are made:
\* _update_task_levels reads an empty TaskIndex.
Mutations == [op : {"assign"}, task : 1 .. MaxTasks, parent : {NoTask}]
                 \cup [op : {"move"}, task : 1 .. MaxTasks, parent : 1 .. MaxTasks]

Mutate(st, m) ==
    LET r == IF m.op = "assign"
             THEN AssignTaskTxn(st.tasks, m.task, "alice", "alice")
             ELSE ChangeTaskParentTxn(st.tasks, EmptyDict, "alice", m.task, m.parent)
    IN  IF r.error # "" THEN st
        ELSE [ tasks |-> r.tasks, aq |-> st.aq \cup r.aq, iq |-> st.iq \cup r.iq ]

RECURSIVE MutateAll(_, _, _)
MutateAll(st, ms, i) ==
    IF i > Len(ms) THEN st ELSE MutateAll(Mutate(st, ms[i]), ms, i + 1)

\* The tasks of a forest as create_task leaves them, none indexed yet and
\* the hierarchy job of every one of them in the queue, after a sequence
\* of MaxMutations mutations.
InitLive ==
    \E f \in UNION {Forests(n) : n \in 1 .. MaxTasks} :
      \E ms \in [1 .. MaxMutations -> Mutations] :
        LET st == MutateAll([ tasks |-> f, aq |-> {},
                              iq |-> {IndexJob(t, FALSE) : t \in DOMAIN f} ], ms, 1)
        IN  /\ tasks = st.tasks
            /\ taskIndex = EmptyDict
            /\ assigneeIndex = EmptyDict
            /\ indexQueue = st.iq
            /\ assigneeQueue = st.aq
            /\ pendingAssign = {}
            /\ moves = 0
            /\ delta = NoDelta
            /\ query = NoQuery
            /\ rebuild = NoRebuild

\* The mutations have ended; the queues deliver, and deliver again.
NextLive ==
    \/ \E j \in indexQueue, keep \in BOOLEAN : DeliverIndexJob(j, keep)
    \/ \E j \in assigneeQueue, keep \in BOOLEAN : DeliverAssigneeJob(j, keep)

\* The queue gives a job up only on status 200 and delivers the jobs of a
\* task again until then: a job whose handler would end with 200 is not
\* left lying.
FairDelivery ==
    \A t \in 1 .. MaxTasks :
        /\ WF_vars(\E j \in indexQueue : j.task = t /\ DeliverIndexJob(j, FALSE))
        /\ WF_vars(\E j \in assigneeQueue : j.task = t /\ DeliverAssigneeJob(j, FALSE))

SpecLive == InitLive /\ [][NextLive]_vars /\ FairDelivery

\* ================================================================= claims
\* C1: in every committed state reached by create_task and
\* change_task_parent, following parent_task from any task reaches a root
\* without meeting a task twice: the parent relation is a forest.
C1_Forest == \A t \in TaskIds : ReachesRoot(tasks, t, {})

\* A task that a move has put under a task created after it.
C1_Witness ==
    /\ moves > 0
    /\ \E t \in TaskIds : tasks[t].parent_task > t

\* C2: change_task_parent(T, X) by a requester allowed to move T, with X
\* being T or a descendant of T, raises "Cycle detected" with nothing put
\* and nothing enqueued, and no step that changes a task, an index or a
\* queue is such a call (by any requester).
Authorised(ts, user, t) == ts[t].user = user \/ user \in DomainAdmins

C2_CycleRejected ==
    /\ [](\A u \in Users, t \in TaskIds, x \in TaskIds :
            (Authorised(tasks, u, t) /\ InSubtree(tasks, x, t))
            => ChangeTaskParentTxn(tasks, taskIndex, u, t, x)
                 = Failed(tasks, "Cycle detected"))
    /\ [][UNCHANGED store
          \/ \A t \in TaskIds, x \in TaskIds :
               InSubtree(tasks, x, t) => \A u \in Users : ~ChangeTaskParent(u, t, x)]_vars

\* A task with a subtask of a subtask, and jobs waiting: the move of the
\* task under its grandchild is one of the calls the claim is about.
C2_Witness ==
    \E t \in TaskIds, x \in TaskIds :
        /\ x # t
        /\ tasks[x].parent_task # t
        /\ InSubtree(tasks, x, t)
        /\ indexQueue # {}
        /\ ChangeTaskParentTxn(tasks, taskIndex, "alice", t, x).error = "Cycle detected"

\* C3: on a forest that stays as it is, once every delta queued by
\* assign_task and by the deltas' own propagation has been applied (each in
\* its turn, whatever the order of delivery), the assignees of every task's
\* index are the users assigned to the atomic tasks of its subtree.
C3_AssigneesMatchSubtree ==
    AssigneeJobsApplied
    => \A t \in TaskIds : IndexAssignees(assigneeIndex, t) = AssignedInSubtree(tasks, t)

\* Two atomic tasks under one parent, both handed from alice to bob, all
\* four deltas and what they passed on applied.
C3_Witness ==
    /\ AssigneeJobsApplied
    /\ \E t \in TaskIds :
         /\ Cardinality(Children(tasks, t)) >= 2
         /\ \A c \in Children(tasks, t) :
              tasks[c].assignee = "bob" /\ tasks[c].assignee_index_sequence >= 2
         /\ IndexAssignees(assigneeIndex, t) = {"bob"}

\* C4: after create_task, assign_task and change_task_parent, once every
\* queued job has been applied, the assignees of every task's index are the
\* users assigned to the atomic tasks of its current subtree.  Stated for
\* the states in which no task with subtasks carries an assignee of its
\* own (one taken before its first subtask was created), which leaves the
\* moves to account for any difference.
CompositesUnassigned(ts) ==
    \A x \in DOMAIN ts : Children(ts, x) # {} => ts[x].assignee = NONE

C4_AssigneesMatchCurrentSubtree ==
    (AssigneeJobsApplied /\ pendingAssign = {} /\ CompositesUnassigned(tasks))
    => \A t \in TaskIds : IndexAssignees(assigneeIndex, t) = AssignedInSubtree(tasks, t)

\* C5: the handler given a delta whose sequence is below the index's
\* answers 200 and changes nothing (no index, no task's sequence counter,
\* no new job), and the delivery step leaves tasks and indexes as they
\* were and adds no job to the queue.
Duplicate(j) ==
    j.task \in TaskIds /\ j.sequence < GetAssigneeIndex(assigneeIndex, j.task).sequence

C5_DuplicateIsNoOp ==
    /\ [](\A j \in assigneeQueue :
            Duplicate(j)
            => UpdateAssigneeIndexTxn(tasks, assigneeIndex, j)
                 = [ status |-> 200, applied |-> FALSE, tasks |-> tasks,
                     assigneeIndex |-> assigneeIndex, aq |-> {} ])
    /\ [][\A j \in assigneeQueue, keep \in BOOLEAN :
            (Duplicate(j) /\ DeliverAssigneeJob(j, keep))
            => /\ UNCHANGED <<tasks, assigneeIndex>>
               /\ assigneeQueue' = IF keep THEN assigneeQueue ELSE assigneeQueue \ {j}]_vars

\* A delta that was applied and passed on to the parent, and is still in
\* the queue to be delivered again.
C5_Witness ==
    \E j \in assigneeQueue :
        /\ Duplicate(j)
        /\ tasks[j.task].parent_task # NoTask
        /\ j.add_assignee \in IndexAssignees(assigneeIndex, tasks[j.task].parent_task)

\* C6: with the deltas of one task waiting in any order: the handler given
\* a delta ahead of the index's sequence answers 500 and changes nothing;
\* given the delta whose turn it is, it applies it; and whatever the order
\* of delivery, the index after n applied deltas, and the deltas passed on
\* to the parent, are those of the first n deltas applied in order.
Early(j) == j.sequence > GetAssigneeIndex(assigneeIndex, j.task).sequence

InTurn(j) == j.sequence = GetAssigneeIndex(assigneeIndex, j.task).sequence

PassedOn(ts, task, out) ==
    {AssigneeJob(ts[task].parent_task, k - 1, out[k][1], out[k][2]) : k \in DOMAIN out}

C6_OrderOfDelivery ==
    delta.on =>
    LET index == GetAssigneeIndex(assigneeIndex, delta.task)
        inorder == InOrder(delta.jobs, index.sequence, delta.task)
        own == {j \in assigneeQueue : j.task = delta.task}
    IN  /\ \A j \in own :
              Early(j) => UpdateAssigneeIndexTxn(tasks, assigneeIndex, j)
                            = [ status |-> 500, applied |-> FALSE, tasks |-> tasks,
                                assigneeIndex |-> assigneeIndex, aq |-> {} ]
        /\ \A j \in own :
              InTurn(j) => LET r == UpdateAssigneeIndexTxn(tasks, assigneeIndex, j)
                           IN  r.status = 200 /\ r.applied
        /\ index = inorder.index
        /\ assigneeQueue \ own = PassedOn(tasks, delta.task, inorder.out)

\* Three deltas all applied, the last of them passed on to the parent.
C6_Witness ==
    /\ delta.on
    /\ Len(delta.jobs) >= 3
    /\ GetAssigneeIndex(assigneeIndex, delta.task).sequence = Len(delta.jobs)
    /\ Cardinality({j \in assigneeQueue : j.task # delta.task}) >= 2

\* C7: a task with at least one subtask is completed exactly when its
\* remaining_subtasks is 0.  (A task without subtasks has the one completed
\* flag set_task_completed writes: there is no second field to compare.)
C7_CompletedIffNoneRemaining ==
    \A t \in TaskIds :
        Children(tasks, t) # {}
        => (tasks[t].completed <=> tasks[t].remaining_subtasks = 0)

\* C8: every task's remaining_subtasks is the number of its subtasks that
\* are not completed.
C8_RemainingCountsIncomplete ==
    \A t \in TaskIds : tasks[t].remaining_subtasks = Cardinality(Incomplete(tasks, t))

\* C9: every task's number_of_subtasks is the number of tasks whose
\* parent_task it is.
C9_NumberCountsChildren ==
    \A t \in TaskIds : tasks[t].number_of_subtasks = Cardinality(Children(tasks, t))

\* C10: for a task P whose subtasks all have no subtasks: a
\* set_task_completed(TRUE) that changes a subtask leaves P not completed
\* while another subtask is incomplete; on the last incomplete subtask it
\* makes P completed and takes exactly 1 off the remaining_subtasks of P's
\* parent, if P has one.
C10_LastChildCompletesParent ==
    [][\A u \in Users, t \in TaskIds :
        LET P == tasks[t].parent_task IN
        (/\ SetTaskCompleted(u, t, TRUE)
         /\ tasks' # tasks
         /\ P # NoTask
         /\ \A c \in Children(tasks, P) : Children(tasks, c) = {})
        => IF Incomplete(tasks, P) \ {t} # {}
           THEN ~tasks'[P].completed
           ELSE /\ tasks'[P].completed
                /\ LET G == tasks[P].parent_task IN
                   G # NoTask
                   => tasks'[G].remaining_subtasks = tasks[G].remaining_subtasks - 1]_vars

ComputedHierarchy(ts, idx, task) ==
    IF ts[task].parent_task = NoTask THEN <<>>
    ELSE Append(idx[ts[task].parent_task].hierarchy, ts[task].parent_task)

\* A queued job whose task has an index that already holds the path the job
\* would compute.
NothingToUpdate(j) ==
    /\ j.task \in TaskIds
    /\ j.task \in DOMAIN taskIndex
    /\ tasks[j.task].parent_task # NoTask => tasks[j.task].parent_task \in DOMAIN taskIndex
    /\ taskIndex[j.task].hierarchy = ComputedHierarchy(tasks, taskIndex, j.task)

\* C12: a hierarchy job (queued by create_task, change_task_parent or a
\* parent's job, none of them forcing) whose task already has an index
\* holding the path the job computes writes nothing and queues no job for
\* the subtasks.
C12_UnchangedPathWritesNothing ==
    \A j \in indexQueue :
        NothingToUpdate(j) => ~UpdateTaskIndexTxn(tasks, taskIndex, j).changed

\* A queued job whose task exists and whose parent has no TaskIndex.
ParentIndexMissing(j) ==
    /\ j.task \in TaskIds
    /\ tasks[j.task].parent_task # NoTask
    /\ tasks[j.task].parent_task \notin DOMAIN taskIndex

\* C13: a hierarchy job whose task's parent has no TaskIndex answers 500
\* (deliver again), writes no TaskIndex and queues no job: the handler's
\* result says so, and no step that changes an index or a queue is the
\* delivery of such a job.
C13_MissingParentIndexRetries ==
    /\ [](\A j \in indexQueue :
            ParentIndexMissing(j)
            => UpdateTaskIndexTxn(tasks, taskIndex, j)
                 = [ status |-> 500, changed |-> FALSE, taskIndex |-> taskIndex ])
    /\ [][UNCHANGED store
          \/ \A j \in indexQueue :
               ParentIndexMissing(j) => \A keep \in BOOLEAN : ~DeliverIndexJob(j, keep)]_vars

\* The job of a subtask with subtasks of its own is queued, neither it nor
\* its parent has an index yet.
C13_Witness ==
    \E j \in indexQueue :
        /\ ParentIndexMissing(j)
        /\ j.task \notin DOMAIN taskIndex
        /\ Children(tasks, j.task) # {}

\* C15: every task's level is 0 if it has no parent and its parent's level
\* plus 1 otherwise, in every state reached by creations, moves and
\* hierarchy jobs in any interleaving.
C15_LevelIsDepth ==
    \A t \in TaskIds :
        tasks[t].level = IF tasks[t].parent_task = NoTask THEN 0
                         ELSE tasks[tasks[t].parent_task].level + 1

\* C16: change_task_parent(T, None) by T's creator or a domain admin, for a
\* task T that has a parent, commits: T has no parent and level 0, the old
\* parent has one subtask less, and a hierarchy job for T is queued.
C16_MoveToRootSucceeds ==
    \A u \in Users, t \in TaskIds :
        ((tasks[t].user = u \/ u \in DomainAdmins) /\ tasks[t].parent_task # NoTask)
        => LET r == ChangeTaskParentTxn(tasks, taskIndex, u, t, NoTask)
               old == tasks[t].parent_task
           IN  /\ r.error = ""
               /\ r.tasks[t].parent_task = NoTask
               /\ r.tasks[t].level = 0
               /\ r.tasks[old].number_of_subtasks = tasks[old].number_of_subtasks - 1
               /\ IndexJob(t, FALSE) \in r.iq

\* C17: change_task_parent by a user who neither created the task nor is
\* an admin of the domain raises "User did not create task" with nothing
\* put and nothing queued, whatever the new parent, and no step that
\* changes a task, an index or a queue is such a call.
NotAllowedToMove(u, t) == tasks[t].user # u /\ u \notin DomainAdmins

C17_UnauthorisedMoveRejected ==
    /\ [](\A u \in Users, t \in TaskIds, n \in TaskArgs :
            NotAllowedToMove(u, t)
            => ChangeTaskParentTxn(tasks, taskIndex, u, t, n)
                 = Failed(tasks, "User did not create task"))
    /\ [][UNCHANGED store
          \/ \A u \in Users, t \in TaskIds :
               NotAllowedToMove(u, t) => \A n \in TaskArgs : ~ChangeTaskParent(u, t, n)]_vars

\* A move that commits for alice and that bob may not make, with an
\* assigned task and a queued job that must stay as they are.
C17_Witness ==
    \E t \in TaskIds, n \in TaskIds :
        /\ NotAllowedToMove("bob", t)
        /\ tasks[t].assignee # NONE
        /\ indexQueue # {}
        /\ ChangeTaskParentTxn(tasks, taskIndex, "alice", t, n).error = ""

\* C18: set_task_completed commits exactly when the task exists, is atomic
\* (number_of_subtasks = 0) and the user is its assignee; otherwise it
\* raises "Invalid task" with nothing put, and no step that changes a task
\* is such a call.
MayComplete(u, t) == t \in TaskIds /\ tasks[t].number_of_subtasks = 0 /\ tasks[t].assignee = u

MayAssign(u, t, a) ==
    /\ tasks[t].number_of_subtasks = 0
    /\ \/ tasks[t].assignee = u
       \/ tasks[t].assignee = NONE /\ u = a
       \/ u \in DomainAdmins

C19_AssignExactlyWhenAllowed ==
    \A u \in Users, t \in TaskIds, a \in Users :
        LET r == AssignTaskTxn(tasks, t, u, a)
        IN  IF MayAssign(u, t, a)
            THEN r.error = "" /\ r.tasks[t].assignee = a
            ELSE r = Failed(tasks, "Cannot assign")

\* C20: the assignment step of create_task(domain, user, description,
\* assignee = U) leaves the new task assigned to U and queues a delta for
\* the new task that adds U.
C20_CreatedTaskAssignedAsAsked ==
    [][\A p \in pendingAssign :
         CreateTaskAssign(p)
         => /\ tasks'[p.task].assignee = p.assignee
            /\ \E j \in assigneeQueue' \ assigneeQueue :
                 j.task = p.task /\ j.add_assignee = p.assignee]_vars

\* C14: R, A under R and B under A are created, B is assigned to a user
\* who completes it, and every job is delivered.  Then A is completed, R is
\* completed exactly when every other subtask of R is completed too, the
\* assignee index of A is exactly that user, and the index of R is that
\* user together with the users assigned in R's other subtrees (so exactly
\* that user when A is R's only subtask).
Chain(r, a, b) ==
    /\ tasks[r].parent_task = NoTask
    /\ tasks[a].parent_task = r
    /\ Children(tasks, a) = {b}
    /\ Children(tasks, b) = {}

C14_CompletedSubtaskEndToEnd ==
    (AssigneeJobsApplied /\ indexQueue = {})
    => \A r \in TaskIds, a \in TaskIds, b \in TaskIds :
         (Chain(r, a, b) /\ tasks[b].assignee # NONE /\ tasks[b].completed)
         => /\ tasks[a].completed
            /\ tasks[r].completed
                 <=> \A c \in Children(tasks, r) \ {a} : tasks[c].completed
            /\ IndexAssignees(assigneeIndex, a) = {tasks[b].assignee}
            /\ IndexAssignees(assigneeIndex, r)
                 = {tasks[b].assignee}
                     \cup UNION {AssignedInSubtree(tasks, c) : c \in Children(tasks, r) \ {a}}
            /\ Children(tasks, r) = {a}
                 => IndexAssignees(assigneeIndex, r) = {tasks[b].assignee}

\* alice has completed B and every job is delivered, while R has another
\* subtask that is not completed.
C14_Witness ==
    /\ AssigneeJobsApplied
    /\ \E r \in TaskIds, a \in TaskIds, b \in TaskIds :
         /\ Chain(r, a, b)
         /\ tasks[b].assignee = "alice"
         /\ tasks[b].completed
         /\ tasks[a].completed
         /\ IndexAssignees(assigneeIndex, r) = {"alice"}
         /\ \E c \in Children(tasks, r) \ {a} : ~tasks[c].completed

\* C21: create_task with an assignee is one atomic operation: in no
\* committed state does a task created with an assignee exist while its
\* assignment is still to be made.
C21_CreateWithAssigneeAtomic ==
    \A p \in pendingAssign : p.task \in TaskIds => tasks[p.task].assignee # NONE

\* C22: create_task with a parent identifier that names no task of the
\* domain raises and creates no task.
C22_MissingParentRejected ==
    \A u \in Users, p \in TaskArgs \ {NoTask} :
        p \notin TaskIds
        => LET r == CreateTaskTxn(tasks, u, p)
           IN  r.error # "" /\ r.tasks = tasks /\ r.iq = {}

\* C23: jobs and sequence numbers are durable exactly when the transaction
\* commits.  A call that raises (not authorised, cycle, invalid task,
\* cannot assign) returns the tasks as they were, with every sequence
\* counter, and no job; and in every committed state each sequence number
\* handed out for a task has its job in the queue (or applied already),
\* each queued job has a number that was handed out, and each task has its
\* hierarchy index or a hierarchy job waiting.
NothingKept(r) == r.error # "" => (r.tasks = tasks /\ r.aq = {} /\ r.iq = {})

C23_JobsDurableIffCommitted ==
    /\ \A u \in Users, t \in TaskArgs \ {NoTask} :
         /\ \A n \in TaskArgs : NothingKept(ChangeTaskParentTxn(tasks, taskIndex, u, t, n))
         /\ \A a \in Users : NothingKept(AssignTaskTxn(tasks, t, u, a))
         /\ \A c \in BOOLEAN : NothingKept(SetTaskCompletedTxn(tasks, u, t, c))
    /\ \A t \in TaskIds :
         /\ \A s \in 0 .. (tasks[t].assignee_index_sequence - 1) :
              \/ s < GetAssigneeIndex(assigneeIndex, t).sequence
              \/ \E j \in assigneeQueue : j.task = t /\ j.sequence = s
         /\ t \in DOMAIN taskIndex \/ \E j \in indexQueue : j.task = t
    /\ \A j \in assigneeQueue :
         j.task \in TaskIds /\ j.sequence < tasks[j.task].assignee_index_sequence
    /\ \A j \in indexQueue : j.task \in TaskIds

\* C24: the handler given, in its turn, a delta that changes a reference
\* count without crossing between 0 and 1 (its added user is counted
\* already, its removed user is counted twice or more) applies it, queues
\* nothing for the parent and leaves every task's sequence counter as it
\* was; the delivery step does the same.
CountOf(j, user) ==
    DictGet(GetAssigneeIndex(assigneeIndex, j.task).reference_counts, user, 0)

NoCrossing(j) ==
    /\ j.task \in TaskIds
    /\ InTurn(j)
    /\ j.add_assignee # ABSENT => CountOf(j, j.add_assignee) >= 1
    /\ j.remove_assignee # ABSENT => CountOf(j, j.remove_assignee) >= 2

C24_NoCrossingNoPropagation ==
    /\ [](\A j \in assigneeQueue :
            NoCrossing(j)
            => LET r == UpdateAssigneeIndexTxn(tasks, assigneeIndex, j)
                   counts == r.assigneeIndex[j.task].reference_counts
               IN  /\ r.status = 200 /\ r.applied
                   /\ r.aq = {}
                   /\ r.tasks = tasks
                   /\ j.add_assignee # ABSENT
                        => counts[j.add_assignee] = CountOf(j, j.add_assignee) + 1
                   /\ j.remove_assignee # ABSENT
                        => counts[j.remove_assignee] = CountOf(j, j.remove_assignee) - 1
                   /\ Range(r.assigneeIndex[j.task].assignees)
                        = IndexAssignees(assigneeIndex, j.task))
    /\ [][\A j \in assigneeQueue, keep \in BOOLEAN :
            (NoCrossing(j) /\ DeliverAssigneeJob(j, keep))
            => tasks' = tasks /\ assigneeQueue' \subseteq assigneeQueue]_vars

\* alice added twice and removed once: only the first delta was passed on
\* to the parent.
C24_Witness ==
    /\ delta.on
    /\ delta.jobs = <<<<"alice", NONE>>, <<"alice", NONE>>, <<NONE, "alice">>>>
    /\ GetAssigneeIndex(assigneeIndex, delta.task).sequence = 3
    /\ tasks[tasks[delta.task].parent_task].assignee_index_sequence = 1

\* C25: the handler given, in its turn, a delta for a task with a parent
\* that makes its added user's count 1 or its removed user's count 0
\* queues exactly one delta for the parent, carrying those users and the
\* parent's next sequence number, and advances the parent's counter by
\* one; and whenever the index of a task changes, the delta applied is the
\* one next in the order the sequence numbers were handed out.
Crossing(j) ==
    /\ j.task \in TaskIds
    /\ InTurn(j)
    /\ tasks[j.task].parent_task # NoTask
    /\ \/ j.add_assignee # ABSENT /\ CountOf(j, j.add_assignee) = 0
       \/ j.remove_assignee # ABSENT /\ CountOf(j, j.remove_assignee) = 1

C25_CrossingPassedOnInOrder ==
    /\ [](\A j \in assigneeQueue :
            Crossing(j)
            => LET r == UpdateAssigneeIndexTxn(tasks, assigneeIndex, j)
                   parent == tasks[j.task].parent_task
                   next == tasks[parent].assignee_index_sequence
                   add == IF j.add_assignee # ABSENT /\ CountOf(j, j.add_assignee) = 0
                          THEN j.add_assignee ELSE ABSENT
                   remove == IF j.remove_assignee # ABSENT /\ CountOf(j, j.remove_assignee) = 1
                             THEN j.remove_assignee ELSE ABSENT
               IN  /\ r.status = 200 /\ r.applied
                   /\ r.aq = {[ task |-> parent, sequence |-> next,
                                add_assignee |-> add, remove_assignee |-> remove ]}
                   /\ r.tasks = [tasks EXCEPT ![parent].assignee_index_sequence = next + 1])
    /\ [][delta.on =>
            LET index == GetAssigneeIndex(assigneeIndex, delta.task)
                after == GetAssigneeIndex(assigneeIndex', delta.task)
            IN  after # index
                => /\ index.sequence < Len(delta.jobs)
                   /\ after = ApplyInTurn(index,
                                AssigneeJob(delta.task, index.sequence,
                                            delta.jobs[index.sequence + 1][1],
                                            delta.jobs[index.sequence + 1][2])).index
                   /\ after.sequence = index.sequence + 1]_vars

\* alice added, then replaced by bob: the second delta, which crosses on
\* both sides, is queued for the parent with the parent's second number.
C25_Witness ==
    /\ delta.on
    /\ Len(delta.jobs) = 3
    /\ \E j \in assigneeQueue :
         /\ j.task = tasks[delta.task].parent_task
         /\ j.sequence = 1
         /\ j.add_assignee = "bob"
         /\ j.remove_assignee = "alice"

\* C26, as stated: on a forest that stays put, after any assignments and
\* once every assignee job has been applied, the reference count of user u
\* in the index of task T (0 when there is no entry) is the number of
\* tasks without subtasks in T's subtree that are assigned to u.
AssignedTo(ts, t, u) ==
    {x \in DOMAIN ts : InSubtree(ts, x, t) /\ Children(ts, x) = {} /\ ts[x].assignee = u}

ReferenceCount(aidx, t, u) == DictGet(GetAssigneeIndex(aidx, t).reference_counts, u, 0)

C26_CountsMatchSubtree ==
    AssigneeJobsApplied
    => \A t \in TaskIds, u \in Users :
         ReferenceCount(assigneeIndex, t, u) = Cardinality(AssignedTo(tasks, t, u))

\* C26, amended: the reference count of u at T is 1 for a task without
\* subtasks that is assigned to u, and otherwise the number of subtasks of
\* T that have a task assigned to u somewhere in their own subtree.
SubtasksWith(ts, t, u) == {c \in Children(ts, t) : AssignedTo(ts, c, u) # {}}

C26_CountsMatchSubtasks ==
    AssigneeJobsApplied
    => \A t \in TaskIds, u \in Users :
         ReferenceCount(assigneeIndex, t, u)
           = IF Children(tasks, t) = {}
             THEN (IF tasks[t].assignee = u THEN 1 ELSE 0)
             ELSE Cardinality(SubtasksWith(tasks, t, u))

\* Two tasks under the same subtask of a root are assigned to alice, and
\* every delta is applied: the subtask counts alice twice and the root
\* once.
C26_Witness ==
    /\ AssigneeJobsApplied
    /\ \E r \in TaskIds, a \in TaskIds :
         /\ tasks[a].parent_task = r
         /\ Cardinality(AssignedTo(tasks, a, "alice")) = 2
         /\ ReferenceCount(assigneeIndex, a, "alice") = 2
         /\ ReferenceCount(assigneeIndex, r, "alice") = 1

\* C27: in every stored AssigneeIndex the assignees are exactly the users
\* with a reference count above 0, none of them listed twice, and every
\* stored reference count is above 0.
C27_AssigneesAreCountedUsers ==
    \A t \in DOMAIN assigneeIndex :
        LET index == assigneeIndex[t]
            counts == index.reference_counts
        IN  /\ Range(index.assignees) = {u \in DOMAIN counts : counts[u] > 0}
            /\ Cardinality(Range(index.assignees)) = Len(index.assignees)
            /\ \A u \in DOMAIN counts : counts[u] > 0

\* alice and bob were added and alice removed again: bob alone is left.
C27_Witness ==
    /\ delta.on
    /\ delta.jobs = <<<<"alice", NONE>>, <<"bob", NONE>>, <<NONE, "alice">>>>
    /\ GetAssigneeIndex(assigneeIndex, delta.task).sequence = 3
    /\ GetAssigneeIndex(assigneeIndex, delta.task).assignees = <<"bob">>

\* C28: the handler given, in its turn, a delta that removes a user who
\* has no reference count at the task answers 200 and applies it: the
\* user still has no count and is not an assignee, the index's sequence
\* advances by 1, and what is queued for the parent, if anything, names no
\* user to remove.
RemovesUncounted(j) ==
    /\ j.task \in TaskIds
    /\ InTurn(j)
    /\ j.remove_assignee # ABSENT
    /\ j.remove_assignee \notin DOMAIN GetAssigneeIndex(assigneeIndex, j.task).reference_counts

C28_RemovalOfUncountedTolerated ==
    \A j \in assigneeQueue :
        RemovesUncounted(j)
        => LET r == UpdateAssigneeIndexTxn(tasks, assigneeIndex, j)
               before == GetAssigneeIndex(assigneeIndex, j.task)
               after == GetAssigneeIndex(r.assigneeIndex, j.task)
               others == Users \ {j.add_assignee}
           IN  /\ r.status = 200 /\ r.applied
               /\ j.remove_assignee \notin DOMAIN after.reference_counts
               /\ j.remove_assignee \notin Range(after.assignees)
               /\ \A u \in others :
                    /\ DictGet(after.reference_counts, u, 0) = DictGet(before.reference_counts, u, 0)
                    /\ u \in Range(after.assignees) <=> u \in Range(before.assignees)
               /\ after.sequence = before.sequence + 1
               /\ \A q \in r.aq : q.remove_assignee = ABSENT

\* alice, never added, was removed twice, the second time in a delta that
\* adds bob: only bob was passed on to the parent.
C28_Witness ==
    /\ delta.on
    /\ delta.jobs = <<<<NONE, "alice">>, <<"bob", "alice">>>>
    /\ GetAssigneeIndex(assigneeIndex, delta.task).sequence = 2
    /\ \E q \in assigneeQueue :
         /\ q.task = tasks[delta.task].parent_task
         /\ q.add_assignee = "bob"
         /\ q.remove_assignee = ABSENT

\* C29: the list get_all_subtasks returns is a permutation of the tasks it
\* fetched; a task whose parent is in the list comes after that parent;
\* and the descendants of a task that are in the list are exactly the
\* tasks listed between it and the next task that is not its descendant.
Descendant(x, y) == y \in Ancestors(tasks, x)

C29_PreOrderOfFetched ==
    query.on =>
    LET out == query.output IN
    /\ Len(out) = Len(query.fetched)
    /\ Range(out) = Range(query.fetched)
    /\ Cardinality(Range(out)) = Len(out)
    /\ \A i \in DOMAIN out :
         tasks[out[i]].parent_task \in Range(out)
         => \E k \in 1 .. (i - 1) : out[k] = tasks[out[i]].parent_task
    /\ \A i \in DOMAIN out, k \in DOMAIN out :
         Descendant(out[k], out[i])
         => i < k /\ \A m \in (i + 1) .. k : Descendant(out[m], out[i])

\* C30: in the list get_all_subtasks returns, of two tasks with the same
\* parent in the list, or two tasks that both have no parent in the list,
\* the one that is not completed comes first, and of two with the same
\* completed flag the one created later comes first.
ParentInList(out, x) ==
    IF tasks[x].parent_task \in Range(out) THEN tasks[x].parent_task ELSE NoTask

C30_SiblingsInSortOrder ==
    query.on =>
    LET out == query.output IN
    \A i \in DOMAIN out, k \in DOMAIN out :
        (i < k /\ ParentInList(out, out[i]) = ParentInList(out, out[k]))
        => \/ ~tasks[out[i]].completed /\ tasks[out[k]].completed
           \/ /\ tasks[out[i]].completed = tasks[out[k]].completed
              /\ time(out[i]) > time(out[k])

\* C31: once the mutations have ended, fair delivery empties both queues
\* for good: no hierarchy job waits for a parent index for ever and no
\* assignee delta waits for an earlier sequence number for ever.
C31_QueuesDrain == <>[](indexQueue = {} /\ assigneeQueue = {})

\* A hierarchy job that waits for its parent's index and an assignee delta
\* that waits for the one before it, both in the queue.
C31_Witness ==
    /\ \E j \in indexQueue : UpdateTaskIndexTxn(tasks, taskIndex, j).status = 500
    /\ \E j \in assigneeQueue :
          /\ j.task \in TaskIds
          /\ GetAssigneeIndex(assigneeIndex, j.task).sequence < j.sequence

\* C32: change_task_parent takes a task away from a parent whose only
\* incomplete subtask it was, the parent keeping other subtasks, all
\* completed.  The old parent becomes completed and its own parent counts
\* one incomplete subtask less: after the move the remaining count of the
\* old parent's parent is the number of its incomplete subtasks.
OnlyIncompleteChild(ts, t) ==
    LET p == ts[t].parent_task IN
    /\ p # NoTask
    /\ ts[p].parent_task # NoTask
    /\ ~ts[t].completed
    /\ Children(ts, p) # {t}
    /\ \A c \in Children(ts, p) \ {t} : ts[c].completed

C32_DetachCompletesAndPropagates ==
    \A t \in TaskIds, n \in TaskIds :
        (moves = 0 /\ OnlyIncompleteChild(tasks, t)
            /\ ~InSubtree(tasks, n, tasks[t].parent_task))
        => LET r == ChangeTaskParentTxn(tasks, taskIndex, "alice", t, n)
               p == tasks[t].parent_task
               gp == tasks[p].parent_task
           IN  /\ r.error = ""
               /\ r.tasks[p].completed
               /\ r.tasks[gp].remaining_subtasks = Cardinality(Incomplete(r.tasks, gp))

\* C33: the propagation of set_task_completed, create_task and
\* change_task_parent changes the completed flag and the remaining count
\* only along the chain of ancestors, up to and including the first one
\* whose completed flag does not flip.  Every ancestor above that one and
\* every task off the chain keeps both.
Flipped(ts, rs, x) == rs[x].completed # ts[x].completed

SameCompletion(ts, rs, x) ==
    /\ rs[x].completed = ts[x].completed
    /\ rs[x].remaining_subtasks = ts[x].remaining_subtasks

\* x is on the chain that starts at the task start and every task of the
\* chain below x has flipped.
MayChange(ts, rs, start, x) ==
    /\ InSubtree(ts, start, x)
    /\ \A b \in DOMAIN ts :
          (InSubtree(ts, start, b) /\ x \in Ancestors(ts, b)) => Flipped(ts, rs, b)

C33_PropagationStopsAtFirstUnflipped ==
    /\ \A t \in TaskIds, c \in BOOLEAN :
          LET r == SetTaskCompletedTxn(tasks, "alice", t, c) IN
          \A x \in TaskIds \ {t} :
              SameCompletion(tasks, r.tasks, x)
                  \/ MayChange(tasks, r.tasks, tasks[t].parent_task, x)
    /\ \A p \in TaskIds :
          LET r == CreateTaskTxn(tasks, "alice", p) IN
          \A x \in TaskIds :
              SameCompletion(tasks, r.tasks, x) \/ MayChange(tasks, r.tasks, p, x)
    /\ \A t \in TaskIds, n \in TaskIds :
          LET r == ChangeTaskParentTxn(tasks, taskIndex, "alice", t, n) IN
          \A x \in TaskIds \ {t} :
              \/ SameCompletion(tasks, r.tasks, x)
              \/ MayChange(tasks, r.tasks, tasks[t].parent_task, x)
              \/ MayChange(tasks, r.tasks, n, x)

\* The path of a queued job differs from the stored one, or none is stored.
PathDiffers(j) ==
    /\ j.task \in TaskIds
    /\ tasks[j.task].parent_task # NoTask => tasks[j.task].parent_task \in DOMAIN taskIndex
    /\ \/ j.task \notin DOMAIN taskIndex
       \/ taskIndex[j.task].hierarchy # ComputedHierarchy(tasks, taskIndex, j.task)

\* C34: a hierarchy job whose computed path differs from the stored
\* hierarchy in any way, the same ancestors in another order included, or
\* whose task has no TaskIndex, stores the computed path and queues a job
\* for every subtask of the task.
C34_ChangedPathStoredAndFannedOut ==
    \A j \in indexQueue :
        PathDiffers(j)
        => LET r == UpdateTaskIndexTxn(tasks, taskIndex, j) IN
           /\ r.status = 200 /\ r.changed
           /\ r.taskIndex[j.task].hierarchy = ComputedHierarchy(tasks, taskIndex, j.task)
           /\ \A c \in Children(tasks, j.task) :
                 \E k \in SubtaskJobs(tasks, j) : k.task = c

\* A queued job whose stored path lists the ancestors of the computed path
\* in another order.
C34_Witness ==
    \E j \in indexQueue :
        /\ PathDiffers(j)
        /\ j.task \in DOMAIN taskIndex
        /\ Range(taskIndex[j.task].hierarchy)
             = Range(ComputedHierarchy(tasks, taskIndex, j.task))

FreshNumbers(aq) ==
    \A k \in aq :
        /\ \A j \in assigneeQueue : j.task = k.task => j.sequence # k.sequence
        /\ k.sequence >= GetAssigneeIndex(assigneeIndex, k.task).sequence
        /\ \A j \in aq : (j.task = k.task /\ j # k) => j.sequence # k.sequence

\* C36: a task's assignee_index_sequence never decreases under assign_task,
\* change_task_parent and the propagation of deltas; every delta queued
\* for a task carries a number no other delta of the task carries; and the
\* AssigneeIndex sequence goes up by exactly 1 when a delta is applied and
\* stays when a delta is rejected or ignored.
C36_SequenceNumbersDistinctAndMonotone ==
    /\ [](/\ \A t \in TaskIds :
               FreshNumbers(AssignTaskTxn(tasks, t, "alice", "alice").aq)
          /\ \A t \in TaskIds, n \in TaskIds :
               FreshNumbers(ChangeTaskParentTxn(tasks, taskIndex, "alice", t, n).aq)
          /\ \A j \in assigneeQueue :
               LET r == UpdateAssigneeIndexTxn(tasks, assigneeIndex, j) IN
               /\ FreshNumbers(r.aq)
               /\ j.task \in TaskIds
                    => GetAssigneeIndex(r.assigneeIndex, j.task).sequence
                         = GetAssigneeIndex(assigneeIndex, j.task).sequence
                             + (IF r.applied THEN 1 ELSE 0))
    /\ [][\A t \in TaskIds :
            tasks'[t].assignee_index_sequence >= tasks[t].assignee_index_sequence]_vars

\* The deltas of task t numbered n that are in the queue.
Pending(t, n) == {j \in assigneeQueue : j.task = t /\ j.sequence = n}

\* C37: in every state and for every task the AssigneeIndex sequence is at
\* most the task's assignee_index_sequence, and for every number from the
\* one to the other exactly one delta with that number is in the queue: no
\* number that was handed out lacks the delta its successors wait for.
C37_EveryNumberHasItsDelta ==
    \A t \in TaskIds :
        LET sequence == GetAssigneeIndex(assigneeIndex, t).sequence IN
        /\ sequence <= tasks[t].assignee_index_sequence
        /\ \A n \in sequence .. (tasks[t].assignee_index_sequence - 1) :
              Cardinality(Pending(t, n)) = 1

\* C38: set_task_completed with the value the task already has changes
\* nothing: the task and every ancestor keep their completed flag and
\* remaining count, and no job is queued.  Calling it again after a call
\* that went through leaves the tasks as the first call left them.
C38_SameValueIsNoOp ==
    \A u \in Users, t \in TaskIds, c \in BOOLEAN :
        LET once == SetTaskCompletedTxn(tasks, u, t, c)
            twice == SetTaskCompletedTxn(once.tasks, u, t, c)
        IN  once.error = ""
            => /\ tasks[t].completed = c
                    => (once.tasks = tasks /\ once.aq = {} /\ once.iq = {})
               /\ twice.error = ""
               /\ twice.tasks = once.tasks /\ twice.aq = {} /\ twice.iq = {}

\* A completed task of alice under a parent that is completed with it, the
\* parent under a task that counts it.
C38_Witness ==
    \E t \in TaskIds :
        /\ tasks[t].completed /\ tasks[t].assignee = "alice" /\ atomic(tasks[t])
        /\ tasks[t].parent_task # NoTask
        /\ tasks[tasks[t].parent_task].completed
        /\ tasks[tasks[t].parent_task].parent_task # NoTask

\* C39: after clear_all_indices on every task and rebuild_indices on every
\* task, no delta the rebuild queues is behind its AssigneeIndex (it would
\* be dropped as a duplicate), and once both queues are empty every task
\* has the TaskIndex and the assignees a recompute from the tree and the
\* assignments gives, whatever the AssigneeIndex sequences were before.
C39_RebuildDeltasApplied ==
    rebuild.cleared = TaskIds
    => /\ \A j \in assigneeQueue :
             GetAssigneeIndex(assigneeIndex, j.task).sequence <= j.sequence
       /\ (rebuild.rebuilt = TaskIds /\ indexQueue = {} /\ assigneeQueue = {})
            => \A t \in TaskIds :
                 /\ t \in DOMAIN taskIndex
                 /\ taskIndex[t].hierarchy = HierarchyOf(tasks, t)
                 /\ IndexAssignees(assigneeIndex, t) = AssignedInSubtree(tasks, t)

====
